---- MODULE Spec2Model ----
(***************************************************************************)
(* A model of likert_correlation: the LikertAnalyzer of analyzer.py        *)
(* (load_data, analyze, create_visualizations and the two interpretation   *)
(* functions) and the /upload and /analyze request handlers of web.py      *)
(* that share one analyzer.                                                *)
(*                                                                         *)
(* A pandas Series is a sequence of [idx, val] records: dropna keeps the   *)
(* row label of every value it keeps.  scipy and numpy take the values by  *)
(* position; pandas.crosstab aligns its two Series on the row labels.      *)
(***************************************************************************)
EXTENDS Integers, Sequences, FiniteSets, TLC

\* Bounds of the model: the rows of an uploaded table, the highest Likert
\* value, and the rows of a table in the session specification.
MaxRows == 3
MaxVal == 2
SessionRows == 2
\* A coefficient is a whole number of steps of 1 / (10 * GridTenth); the
\* recommendation rule is tried on sample sizes up to MaxSample.
GridTenth == 10
MaxSample == 100
\* The requests the web application handles at once, and the rows of the
\* tables uploaded to it.
MaxUploads == 2
MaxAnalyzes == 1
WebRows == 1

\* A missing cell (pandas NaN) and the Likert values a cell can hold.
NaN == -1
LikertValues == 1..MaxVal
Cells == LikertValues \cup {NaN}

\* The columns of an uploaded file, and the names a request may carry
\* ("Z" is in no file).
FileColumns == <<"A", "B">>
RequestNames == {"A", "B", "Z"}

\* self.data before any load (None): a table with no column.
NoData == <<>>
IsNone(d) == DOMAIN d = {}

\* upload: the table in the file the caller uploads.
\* data, columns: the fields of the analyzer.
\* outcome: what the call in progress raised or returned, until the caller
\*          has taken it.
\* described: a create_visualizations call has returned a figure since the
\*          last load (kept by the session specification only).
\* pure: the argument and the value of a call of a function that reads
\*          nothing but its arguments.
\* web: the request threads of the web application.
VARIABLES upload, data, columns, outcome, described, pure, web

vars == <<upload, data, columns, outcome, described, pure, web>>

----------------------------------------------------------------------------
\* Sequences and sets

Range(s) == {s[i] : i \in DOMAIN s}

\* The sum of the values of a function (the counts of a histogram or matrix).
RECURSIVE SumFn(_)
SumFn(f) ==
    IF DOMAIN f = {} THEN 0
    ELSE LET x == CHOOSE y \in DOMAIN f : TRUE
         IN f[x] + SumFn([y \in DOMAIN f \ {x} |-> f[y]])

SetMin(S) == CHOOSE x \in S : \A y \in S : x <= y
SetMax(S) == CHOOSE x \in S : \A y \in S : x >= y

\* All tables a file can hold: every column has the same number of rows.
TablesUpTo(rows) ==
    UNION {[Range(FileColumns) -> [1..n -> Cells]] : n \in 0..rows}
Tables == TablesUpTo(MaxRows)

----------------------------------------------------------------------------
\* pandas

\* self.data[col]: the column as a Series, every row labelled by its number.
Column(d, col) == [i \in DOMAIN d[col] |-> [idx |-> i, val |-> d[col][i]]]

\* Series.dropna(): the non-missing entries, labels kept.
dropna(s) == SelectSeq(s, LAMBDA e : e.val # NaN)

\* Series.unique(): the distinct values.
unique(s) == {s[i].val : i \in DOMAIN s}

\* Series.min() / Series.max(): NaN for an empty Series.
SeriesMin(s) == IF Len(s) = 0 THEN NaN ELSE SetMin(unique(s))
SeriesMax(s) == IF Len(s) = 0 THEN NaN ELSE SetMax(unique(s))

\* Python's built-in min(a, b) / max(a, b): b only when b < a (b > a) is
\* true, and every comparison with NaN is false.
PyMin(a, b) == IF a # NaN /\ b # NaN /\ b < a THEN b ELSE a
PyMax(a, b) == IF a # NaN /\ b # NaN /\ b > a THEN b ELSE a

\* Series.value_counts().reindex(all_values, fill_value=0)
value_counts(s, all_values) ==
    [v \in all_values |-> Cardinality({i \in DOMAIN s : s[i].val = v})]

\* The row labels pandas.crosstab keeps: those present in both Series.
CommonIdx(s1, s2) ==
    {s1[i].idx : i \in DOMAIN s1} \cap {s2[i].idx : i \in DOMAIN s2}

ValAt(s, k) == (CHOOSE e \in Range(s) : e.idx = k).val

\* pandas.crosstab(s1, s2), then zero-filled over all_values x all_values.
crosstab(s1, s2, all_values) ==
    [c \in all_values \X all_values |->
        Cardinality({k \in CommonIdx(s1, s2) :
                        ValAt(s1, k) = c[1] /\ ValAt(s2, k) = c[2]})]

----------------------------------------------------------------------------
\* Errors and outcomes of a call

NoError == ""
NoDataLoadedError == "ValueError: No data loaded. Call load_data() first."
UnknownColumnError == "KeyError"
UnsupportedFormatError ==
    "ValueError: Unsupported file format. Please use CSV or Excel files."
LibraryValueError == "ValueError"

\* What a call left its caller with: the exception raised (NoError when it
\* returned), and the value returned, <<>> when there is none.
Raised(op, c1, c2, err) ==
    [op |-> op, col1 |-> c1, col2 |-> c2, error |-> err,
     result |-> <<>>, chart |-> <<>>]
Returned(op, c1, c2, res, fig) ==
    [op |-> op, col1 |-> c1, col2 |-> c2, error |-> NoError,
     result |-> res, chart |-> fig]

----------------------------------------------------------------------------
\* LikertAnalyzer.load_data

FileSuffixes == {".csv", ".xlsx", ".xls", ".txt"}
SupportedSuffixes == {".csv", ".xlsx", ".xls"}

load_data(suffix, table) ==
    IF suffix \in SupportedSuffixes
    THEN /\ data' = table
         /\ columns' = FileColumns
         /\ outcome' = Returned("load_data", "", "", <<>>, <<>>)
    ELSE /\ outcome' = Raised("load_data", "", "", UnsupportedFormatError)
         /\ UNCHANGED <<data, columns>>

----------------------------------------------------------------------------
\* LikertAnalyzer._interpret_kendall and _interpret_spearman

\* 1.0, 0.1 * k and abs() on the grid of coefficients.
One == 10 * GridTenth
Tenths(k) == k * GridTenth
Abs(x) == IF x < 0 THEN -x ELSE x
Coefficients == (-One)..One

\* A variant whose weak band ends at 0.5, the threshold of Spearman's rho.
interpret_kendall_half(tau) ==
    IF tau = One THEN "Perfect agreement"
    ELSE IF Tenths(5) <= Abs(tau) /\ Abs(tau) < One
    THEN IF tau > 0 THEN "Strong agreement" ELSE "Strong disagreement"
    ELSE IF Tenths(1) <= Abs(tau) /\ Abs(tau) < Tenths(5)
    THEN IF tau > 0 THEN "Weak agreement" ELSE "Weak disagreement"
    ELSE IF -Tenths(1) < tau /\ tau < Tenths(1) THEN "No association"
    ELSE "Perfect disagreement"

interpret_kendall(tau) ==
    IF tau = One THEN "Perfect agreement"
    ELSE IF Tenths(4) <= Abs(tau) /\ Abs(tau) < One
    THEN IF tau > 0 THEN "Strong agreement" ELSE "Strong disagreement"
    ELSE IF Tenths(1) <= Abs(tau) /\ Abs(tau) < Tenths(4)
    THEN IF tau > 0 THEN "Weak agreement" ELSE "Weak disagreement"
    ELSE IF -Tenths(1) < tau /\ tau < Tenths(1) THEN "No association"
    ELSE "Perfect disagreement"

interpret_spearman(rho) ==
    IF rho = One THEN "Perfect positive correlation"
    ELSE IF Tenths(5) <= Abs(rho) /\ Abs(rho) < One
    THEN IF rho > 0 THEN "Strong positive correlation"
         ELSE "Strong negative correlation"
    ELSE IF Tenths(1) <= Abs(rho) /\ Abs(rho) < Tenths(5)
    THEN IF rho > 0 THEN "Weak positive correlation"
         ELSE "Weak negative correlation"
    ELSE IF -Tenths(1) < rho /\ rho < Tenths(1) THEN "No correlation"
    ELSE "Perfect negative correlation"

----------------------------------------------------------------------------
\* LikertAnalyzer.analyze

\* self.data[col] raises KeyError for a name that is no column.
HasColumn(d, col) == col \in DOMAIN d

\* scipy.stats.kendalltau(x, y) and spearmanr(x, y) take the values by
\* position and raise ValueError when the two sizes differ.
SameSize(s1, s2) == Len(s1) = Len(s2)
Paired(s1, s2) == [i \in 1..Len(s1) |-> [a |-> s1[i], b |-> s2[i]]]

\* A variant that counts the tied pairs of values instead.
count_ties_pairs(s) ==
    Cardinality({p \in (DOMAIN s) \X (DOMAIN s) :
                    p[1] < p[2] /\ s[p[1]].val = s[p[2]].val})

\* ties = len(data) - len(data.unique())
count_ties(s) == Len(s) - Cardinality(unique(s))

\* The recommendation rule.  0.2 is TiesNum / TiesDen: the double nearest
\* 0.2 lies above 1/5 by less than 2^-56, so for whole numbers n and t the
\* comparison t > n * 0.2 is TiesDen * t > TiesNum * n.
SmallSample == 30
TiesNum == 2
TiesDen == 10

\* A variant that takes exactly 20% ties for more than 20%.
Recommend_inclusive(sample_size, total_ties) ==
    IF sample_size < SmallSample
    THEN [method |-> "Kendall's tau",
          reason |-> <<"Small sample size (n < 30)">>]
    ELSE IF total_ties * TiesDen >= sample_size * TiesNum
    THEN [method |-> "Kendall's tau",
          reason |-> <<"High number of ties (", total_ties, " ties in ",
                       sample_size, " observations)">>]
    ELSE [method |-> "Spearman's rho",
          reason |-> <<"Larger sample size with fewer ties">>]

Recommend(sample_size, total_ties) ==
    IF sample_size < SmallSample
    THEN [method |-> "Kendall's tau",
          reason |-> <<"Small sample size (n < 30)">>]
    ELSE IF total_ties * TiesDen > sample_size * TiesNum
    THEN [method |-> "Kendall's tau",
          reason |-> <<"High number of ties (", total_ties, " ties in ",
                       sample_size, " observations)">>]
    ELSE [method |-> "Spearman's rho",
          reason |-> <<"Larger sample size with fewer ties">>]

\* A variant without the test for self.data being None: subscripting None
\* raises TypeError.
analyze_raises_unguarded(d, col1, col2) ==
    IF IsNone(d) THEN "TypeError"
    ELSE IF ~HasColumn(d, col1) \/ ~HasColumn(d, col2) THEN UnknownColumnError
    ELSE IF ~SameSize(dropna(Column(d, col1)), dropna(Column(d, col2)))
    THEN LibraryValueError
    ELSE NoError

\* The exception analyze raises, NoError when it returns.
analyze_raises(d, col1, col2) ==
    IF IsNone(d) THEN NoDataLoadedError
    ELSE IF ~HasColumn(d, col1) \/ ~HasColumn(d, col2) THEN UnknownColumnError
    ELSE IF ~SameSize(dropna(Column(d, col1)), dropna(Column(d, col2)))
    THEN LibraryValueError
    ELSE NoError

\* The AnalysisResults analyze makes of data1 and data2.  kendall_tau,
\* kendall_p, spearman_rho, spearman_p and the two interpretations are what
\* scipy and the interpretation functions make of the paired values: the
\* record holds those pairs (with the row each value came from) in their
\* place.
AnalysisOf(data1, data2) ==
    LET total_ties == count_ties(data1) + count_ties(data2)
        sample_size == Len(data1)
        rec == Recommend(sample_size, total_ties)
    IN [paired |-> Paired(data1, data2),
        sample_size |-> sample_size,
        total_ties |-> total_ties,
        recommended_method |-> rec.method,
        recommendation_reason |-> rec.reason]

AnalysisResults(d, col1, col2) ==
    AnalysisOf(dropna(Column(d, col1)), dropna(Column(d, col2)))

analyze(col1, col2) ==
    /\ outcome' =
          IF analyze_raises(data, col1, col2) # NoError
          THEN Raised("analyze", col1, col2, analyze_raises(data, col1, col2))
          ELSE Returned("analyze", col1, col2,
                        <<AnalysisResults(data, col1, col2)>>, <<>>)
    /\ UNCHANGED <<data, columns>>

----------------------------------------------------------------------------
\* LikertAnalyzer.create_visualizations

\* The values np.random.normal draws, in units of the scale 0.1.
NoiseLevels == {-1, 1}

\* int(min(data1.min(), data2.min())) and int(max(...)) + 1: int(NaN)
\* raises ValueError.
RangeLow(s1, s2) == PyMin(SeriesMin(s1), SeriesMin(s2))
RangeHigh(s1, s2) == PyMax(SeriesMax(s1), SeriesMax(s2))
all_values(s1, s2) == RangeLow(s1, s2)..RangeHigh(s1, s2)

\* The exception lines 143-222 raise on data1 and data2, NoError when they
\* do not: int(NaN) for an empty first Series; heatmap_data.loc[val1] = 0
\* on a crosstab with no columns (no row holds both values); data2 + jitter
\* when jitter, of data1's length, is not of data2's length.
FigureRaises(data1, data2) ==
    IF RangeLow(data1, data2) = NaN \/ RangeHigh(data1, data2) = NaN
    THEN LibraryValueError
    ELSE IF CommonIdx(data1, data2) = {} THEN LibraryValueError
    ELSE IF Len(data2) # Len(data1) THEN LibraryValueError
    ELSE NoError

\* The exception create_visualizations raises, NoError when it returns.
create_visualizations_raises(d, col1, col2) ==
    IF IsNone(d) THEN NoDataLoadedError
    ELSE IF ~HasColumn(d, col1) \/ ~HasColumn(d, col2) THEN UnknownColumnError
    ELSE FigureRaises(dropna(Column(d, col1)), dropna(Column(d, col2)))

\* x = data1 + jitter, y = data2 + jitter: one noise array for both.
ScatterPoints(s1, s2, jitter) ==
    [i \in 1..Len(s1) |->
        [x |-> s1[i].val, dx |-> jitter[i], y |-> s2[i].val, dy |-> jitter[i]]]

\* The figure create_visualizations makes of data1 and data2: the two
\* histograms, the joint frequency matrix and the jittered point cloud.
FigureOf(data1, data2, jitter) ==
    LET vals == all_values(data1, data2)
    IN [counts1 |-> value_counts(data1, vals),
        counts2 |-> value_counts(data2, vals),
        heatmap_data |-> crosstab(data1, data2, vals),
        scatter |-> ScatterPoints(data1, data2, jitter)]

Figure(d, col1, col2, jitter) ==
    FigureOf(dropna(Column(d, col1)), dropna(Column(d, col2)), jitter)

\* A variant that drops the rows with a missing value from self.data
\* itself (self.data.dropna(subset=[col1, col2], inplace=True)).
DropRows(d, col1, col2) ==
    LET keep(i) == d[col1][i] # NaN /\ d[col2][i] # NaN
        F[n \in 0..Len(d[col1])] ==
            IF n = 0 THEN <<>>
            ELSE IF keep(n) THEN Append(F[n - 1], n) ELSE F[n - 1]
        rows == F[Len(d[col1])]
    IN [c \in DOMAIN d |-> [k \in DOMAIN rows |-> d[c][rows[k]]]]

create_visualizations_inplace(col1, col2) ==
    IF create_visualizations_raises(data, col1, col2) # NoError
    THEN /\ outcome' = Raised("create_visualizations", col1, col2,
                              create_visualizations_raises(data, col1, col2))
         /\ UNCHANGED <<data, columns>>
    ELSE /\ \E jitter \in [1..Len(dropna(Column(data, col1))) -> NoiseLevels] :
               outcome' = Returned("create_visualizations", col1, col2, <<>>,
                                   <<Figure(data, col1, col2, jitter)>>)
         /\ data' = DropRows(data, col1, col2)
         /\ UNCHANGED columns

create_visualizations(col1, col2) ==
    /\ IF create_visualizations_raises(data, col1, col2) # NoError
       THEN outcome' = Raised("create_visualizations", col1, col2,
                              create_visualizations_raises(data, col1, col2))
       ELSE \E jitter \in [1..Len(dropna(Column(data, col1))) -> NoiseLevels] :
               outcome' = Returned("create_visualizations", col1, col2, <<>>,
                                   <<Figure(data, col1, col2, jitter)>>)
    /\ UNCHANGED <<data, columns>>

----------------------------------------------------------------------------
\* The analyzer, called by one caller

\* No call in progress.
Idle == Raised("idle", "", "", NoError)

\* No call of a function on its own, and no web application.
NoPure == [fn |-> "none", arg |-> 0, ret |-> <<>>]
NoWeb == <<>>

Init ==
    /\ upload \in Tables
    /\ data = NoData
    /\ columns = <<>>
    /\ outcome = Idle
    /\ described = FALSE
    /\ pure = NoPure
    /\ web = NoWeb

LoadCall ==
    /\ outcome = Idle
    /\ \E suffix \in FileSuffixes : load_data(suffix, upload)
    /\ UNCHANGED <<upload, pure, web>>
AnalyzeCall ==
    /\ outcome = Idle
    /\ \E col1 \in RequestNames, col2 \in RequestNames : analyze(col1, col2)
    /\ UNCHANGED <<upload, pure, web>>
DescribeCall ==
    /\ outcome = Idle
    /\ \E col1 \in RequestNames, col2 \in RequestNames :
            create_visualizations(col1, col2)
    /\ UNCHANGED <<upload, pure, web>>

Load == LoadCall /\ UNCHANGED described
Analyze == AnalyzeCall /\ UNCHANGED described
Describe == DescribeCall /\ UNCHANGED described

\* The caller takes what the call raised or returned.
Return ==
    /\ outcome # Idle
    /\ outcome' = Idle
    /\ UNCHANGED <<upload, data, columns, described, pure, web>>

Next == Load \/ Analyze \/ Describe \/ Return

Spec == Init /\ [][Next]_vars

----------------------------------------------------------------------------
\* A session: the same calls, with the record of whether a figure was
\* returned since the last load.

SessionInit ==
    /\ upload \in TablesUpTo(SessionRows)
    /\ data = NoData
    /\ columns = <<>>
    /\ outcome = Idle
    /\ described = FALSE
    /\ pure = NoPure
    /\ web = NoWeb

SessionLoad ==
    /\ LoadCall
    /\ described' = (described /\ outcome'.error # NoError)
SessionAnalyze == AnalyzeCall /\ UNCHANGED described
SessionDescribe ==
    /\ DescribeCall
    /\ described' = (described \/ outcome'.error = NoError)

SessionNext == SessionLoad \/ SessionAnalyze \/ SessionDescribe \/ Return

SpecSession == SessionInit /\ [][SessionNext]_vars

----------------------------------------------------------------------------
\* The web application: create_app's one analyzer (web.py names the class
\* Analyzer; analyzer.py defines LikertAnalyzer) and the request threads of
\* /upload and /analyze.  app.run() handles every request in a thread of
\* its own; a thread may be preempted between any two reads or writes of
\* analyzer.data and analyzer.columns, and nothing in web.py or analyzer.py
\* takes a lock.

MaxRequests == MaxUploads + MaxAnalyzes
WebTables == TablesUpTo(WebRows)
WebSuffixes == {".csv", ".txt"}
\* get_json()'s col1 and col2: a column, a name that is none, or nothing.
WebNames == RequestNames \cup {""}

Free ==
    [kind |-> "none", pc |-> "free", suffix |-> "", table |-> NoData,
     col1 |-> "", col2 |-> "", data1 |-> <<>>, results |-> <<>>,
     fig |-> <<>>, status |-> 0, body |-> <<>>]

Threads(kind) == {i \in DOMAIN web : web[i].kind = kind}

\* jsonify(...), status: the response, and the end of the thread.
Respond(t, status, body) ==
    [t EXCEPT !.pc = "done", !.status = status, !.body = body,
              !.data1 = <<>>]

WebInit ==
    /\ upload = NoData
    /\ data = NoData
    /\ columns = <<>>
    /\ outcome = Idle
    /\ described = FALSE
    /\ pure = NoPure
    /\ web = [i \in 1..MaxRequests |-> Free]

NextFree(i) == web[i].pc = "free" /\ \A j \in 1..(i - 1) : web[j].pc # "free"

\* upload_file, lines 37-49: a request with a file; the file is saved.
UploadAccept(i) ==
    /\ NextFree(i)
    /\ Cardinality(Threads("upload")) < MaxUploads
    /\ \E suffix \in WebSuffixes, table \in WebTables :
          web' = [web EXCEPT ![i] =
                    [Free EXCEPT !.kind = "upload", !.pc = "load_data",
                                 !.suffix = suffix, !.table = table]]
    /\ UNCHANGED <<upload, data, columns, outcome, described, pure>>

\* load_data, lines 47-53: self.data = the table read, or ValueError, which
\* upload_file answers with 400.
UploadLoadData(i) ==
    /\ web[i].kind = "upload" /\ web[i].pc = "load_data"
    /\ IF web[i].suffix \in SupportedSuffixes
       THEN /\ data' = web[i].table
            /\ web' = [web EXCEPT ![i].pc = "columns"]
       ELSE /\ web' = [web EXCEPT ![i] =
                         Respond(@, 400, <<UnsupportedFormatError>>)]
            /\ UNCHANGED data
    /\ UNCHANGED <<upload, columns, outcome, described, pure>>

\* load_data, line 55: self.columns = list(self.data.columns).
UploadSetColumns(i) ==
    /\ web[i].kind = "upload" /\ web[i].pc = "columns"
    /\ columns' = FileColumns
    /\ web' = [web EXCEPT ![i].pc = "respond"]
    /\ UNCHANGED <<upload, data, outcome, described, pure>>

\* load_data, line 56, and upload_file, lines 51-52: return self.columns.
UploadRespond(i) ==
    /\ web[i].kind = "upload" /\ web[i].pc = "respond"
    /\ web' = [web EXCEPT ![i] = Respond(@, 200, <<columns>>)]
    /\ UNCHANGED <<upload, data, columns, outcome, described, pure>>

\* analyze (web.py), lines 61-66: the two names, 400 when one is missing.
AnalyzeAccept(i) ==
    /\ NextFree(i)
    /\ Cardinality(Threads("analyze")) < MaxAnalyzes
    /\ \E col1 \in WebNames, col2 \in WebNames :
          web' = [web EXCEPT ![i] =
                    IF col1 = "" \/ col2 = ""
                    THEN Respond([Free EXCEPT !.kind = "analyze",
                                              !.col1 = col1, !.col2 = col2],
                                 400, <<"Please select both columns">>)
                    ELSE [Free EXCEPT !.kind = "analyze", !.pc = "analyze",
                                      !.col1 = col1, !.col2 = col2]]
    /\ UNCHANGED <<upload, data, columns, outcome, described, pure>>

\* analyzer.analyze, line 96, and create_visualizations, line 138: the
\* test of self.data; the exception is answered with 400 (web.py 97-98).
WebCheckLoaded(i, at, next) ==
    /\ web[i].kind = "analyze" /\ web[i].pc = at
    /\ web' = [web EXCEPT ![i] =
                 IF IsNone(data) THEN Respond(@, 400, <<NoDataLoadedError>>)
                 ELSE [@ EXCEPT !.pc = next]]
    /\ UNCHANGED <<upload, data, columns, outcome, described, pure>>

\* analyzer.analyze, line 99, and create_visualizations, line 140:
\* data1 = self.data[col1].dropna().
WebReadCol1(i, at, next) ==
    /\ web[i].kind = "analyze" /\ web[i].pc = at
    /\ web' = [web EXCEPT ![i] =
                 IF ~HasColumn(data, web[i].col1)
                 THEN Respond(@, 400, <<UnknownColumnError>>)
                 ELSE [@ EXCEPT !.pc = next,
                                !.data1 = dropna(Column(data, web[i].col1))]]
    /\ UNCHANGED <<upload, data, columns, outcome, described, pure>>

AnalyzeCheckLoaded(i) == WebCheckLoaded(i, "analyze", "analyze_col1")
AnalyzeReadCol1(i) == WebReadCol1(i, "analyze_col1", "analyze_col2")

\* analyzer.analyze, lines 100-134: data2 = self.data[col2].dropna() and
\* the AnalysisResults of data1 and data2.
AnalyzeReadCol2(i) ==
    /\ web[i].kind = "analyze" /\ web[i].pc = "analyze_col2"
    /\ web' = [web EXCEPT ![i] =
                 IF ~HasColumn(data, web[i].col2)
                 THEN Respond(@, 400, <<UnknownColumnError>>)
                 ELSE LET data2 == dropna(Column(data, web[i].col2))
                      IN IF ~SameSize(web[i].data1, data2)
                         THEN Respond(@, 400, <<LibraryValueError>>)
                         ELSE [@ EXCEPT !.pc = "visualize", !.data1 = <<>>,
                                 !.results = <<AnalysisOf(web[i].data1, data2)>>]]
    /\ UNCHANGED <<upload, data, columns, outcome, described, pure>>

VisualizeCheckLoaded(i) == WebCheckLoaded(i, "visualize", "visualize_col1")
VisualizeReadCol1(i) == WebReadCol1(i, "visualize_col1", "visualize_col2")

\* create_visualizations, lines 141-264: data2 and the figure.
VisualizeReadCol2(i) ==
    /\ web[i].kind = "analyze" /\ web[i].pc = "visualize_col2"
    /\ IF ~HasColumn(data, web[i].col2)
       THEN web' = [web EXCEPT ![i] = Respond(@, 400, <<UnknownColumnError>>)]
       ELSE LET data2 == dropna(Column(data, web[i].col2))
            IN IF FigureRaises(web[i].data1, data2) # NoError
               THEN web' = [web EXCEPT ![i] =
                       Respond(@, 400, <<FigureRaises(web[i].data1, data2)>>)]
               ELSE \E jitter \in [1..Len(web[i].data1) -> NoiseLevels] :
                      web' = [web EXCEPT ![i] =
                         [@ EXCEPT !.pc = "respond", !.data1 = <<>>,
                            !.fig = <<FigureOf(web[i].data1, data2, jitter)>>]]
    /\ UNCHANGED <<upload, data, columns, outcome, described, pure>>

\* analyze (web.py), lines 74-96: the response holds results and fig.
AnalyzeRespond(i) ==
    /\ web[i].kind = "analyze" /\ web[i].pc = "respond"
    /\ web' = [web EXCEPT ![i] =
                 Respond(@, 200, <<web[i].results[1], web[i].fig[1]>>)]
    /\ UNCHANGED <<upload, data, columns, outcome, described, pure>>

WebNext ==
    \E i \in 1..MaxRequests :
        \/ UploadAccept(i)
        \/ UploadLoadData(i)
        \/ UploadSetColumns(i)
        \/ UploadRespond(i)
        \/ AnalyzeAccept(i)
        \/ AnalyzeCheckLoaded(i)
        \/ AnalyzeReadCol1(i)
        \/ AnalyzeReadCol2(i)
        \/ VisualizeCheckLoaded(i)
        \/ VisualizeReadCol1(i)
        \/ VisualizeReadCol2(i)
        \/ AnalyzeRespond(i)

SpecWeb == WebInit /\ [][WebNext]_vars

\* The tables the /upload requests so far have put in analyzer.data.
LoadedTables ==
    {web[j].table : j \in {k \in Threads("upload") :
                              /\ web[k].suffix \in SupportedSuffixes
                              /\ web[k].pc # "load_data"}}

\* C8: the AnalysisResults and the figure of a 200 response of /analyze
\* are both those of one loaded table: no load replaces the table between
\* the reads of analyzer.analyze and analyzer.create_visualizations.
C8_ResponseFromOneTable ==
    \A i \in Threads("analyze") :
        web[i].status = 200 =>
            \E t \in LoadedTables :
                /\ analyze_raises(t, web[i].col1, web[i].col2) = NoError
                /\ create_visualizations_raises(t, web[i].col1, web[i].col2)
                     = NoError
                /\ web[i].body[1] = AnalysisResults(t, web[i].col1, web[i].col2)
                /\ \E jitter \in [1..Len(dropna(Column(t, web[i].col1)))
                                    -> NoiseLevels] :
                      web[i].body[2] = Figure(t, web[i].col1, web[i].col2, jitter)

----------------------------------------------------------------------------
\* The recommendation rule and the interpretation functions, each called
\* on every argument of a bounded set.

\* The total_ties a sample of n values in each column can have.
TiesOf(n) == 0..(IF n = 0 THEN 0 ELSE 2 * (n - 1))

PureCalls ==
    {[fn |-> "recommend", arg |-> <<n, t>>, ret |-> <<>>] :
        <<n, t>> \in {p \in (0..MaxSample) \X (0..2 * MaxSample) :
                         p[2] \in TiesOf(p[1])}}
    \cup {[fn |-> f, arg |-> c, ret |-> <<>>] :
            f \in {"_interpret_kendall", "_interpret_spearman"},
            c \in Coefficients}

PureInit ==
    /\ upload = NoData
    /\ data = NoData
    /\ columns = <<>>
    /\ outcome = Idle
    /\ described = FALSE
    /\ pure \in PureCalls
    /\ web = NoWeb

RecommendCall ==
    /\ pure.fn = "recommend" /\ pure.ret = <<>>
    /\ pure' = [pure EXCEPT !.ret = <<Recommend(pure.arg[1], pure.arg[2])>>]
    /\ UNCHANGED <<upload, data, columns, outcome, described, web>>

InterpretKendallCall ==
    /\ pure.fn = "_interpret_kendall" /\ pure.ret = <<>>
    /\ pure' = [pure EXCEPT !.ret = <<interpret_kendall(pure.arg)>>]
    /\ UNCHANGED <<upload, data, columns, outcome, described, web>>

InterpretSpearmanCall ==
    /\ pure.fn = "_interpret_spearman" /\ pure.ret = <<>>
    /\ pure' = [pure EXCEPT !.ret = <<interpret_spearman(pure.arg)>>]
    /\ UNCHANGED <<upload, data, columns, outcome, described, web>>

PureNext == RecommendCall \/ InterpretKendallCall \/ InterpretSpearmanCall

SpecPure == PureInit /\ [][PureNext]_vars

PureReturned(fn) == pure.fn = fn /\ pure.ret # <<>>

\* C1: the recommendation is decided by sample_size and total_ties alone,
\* first match first: Kendall's tau for a small sample when sample_size <
\* 30; else Kendall's tau for many ties when 5 * total_ties > sample_size;
\* else Spearman's rho.
C1_RecommendationRule ==
    PureReturned("recommend") =>
        LET n == pure.arg[1]
            t == pure.arg[2]
            r == pure.ret[1]
        IN /\ n < 30 =>
                /\ r.method = "Kendall's tau"
                /\ r.reason = <<"Small sample size (n < 30)">>
           /\ (n >= 30 /\ 5 * t > n) =>
                /\ r.method = "Kendall's tau"
                /\ r.reason = <<"High number of ties (", t, " ties in ", n,
                                " observations)">>
           /\ (n >= 30 /\ 5 * t <= n) =>
                /\ r.method = "Spearman's rho"
                /\ r.reason = <<"Larger sample size with fewer ties">>
           /\ n = 10 => r.method = "Kendall's tau"
           /\ (n = 100 /\ t = 0) => r.method = "Spearman's rho"
           /\ (n = 100 /\ t = 25) => r.method = "Kendall's tau"
           /\ (n = 100 /\ t = 20) => r.method = "Spearman's rho"

\* C1's case: 100 observations with exactly 20 ties got Spearman's rho.
C1_Witness ==
    /\ PureReturned("recommend")
    /\ pure.arg = <<100, 20>>
    /\ pure.ret[1].method = "Spearman's rho"

\* C5: on [-1, 1] the cases of _interpret_kendall partition the range:
\* perfect agreement iff c = 1, strong iff 0.4 <= |c| < 1, weak iff
\* 0.1 <= |c| < 0.4, no association iff |c| < 0.1, the final else iff
\* c = -1, with the sign word that of c; _interpret_spearman likewise with
\* 0.5 for strong.
C5_InterpretationPartition ==
    /\ PureReturned("_interpret_kendall") =>
        LET c == pure.arg
            s == pure.ret[1]
        IN /\ s = "Perfect agreement" <=> c = One
           /\ s = "Strong agreement" <=> (Tenths(4) <= c /\ c < One)
           /\ s = "Strong disagreement" <=> (-One < c /\ c <= -Tenths(4))
           /\ s = "Weak agreement" <=> (Tenths(1) <= c /\ c < Tenths(4))
           /\ s = "Weak disagreement" <=> (-Tenths(4) < c /\ c <= -Tenths(1))
           /\ s = "No association" <=> (-Tenths(1) < c /\ c < Tenths(1))
           /\ s = "Perfect disagreement" <=> c = -One
    /\ PureReturned("_interpret_spearman") =>
        LET c == pure.arg
            s == pure.ret[1]
        IN /\ s = "Perfect positive correlation" <=> c = One
           /\ s = "Strong positive correlation" <=> (Tenths(5) <= c /\ c < One)
           /\ s = "Strong negative correlation"
                <=> (-One < c /\ c <= -Tenths(5))
           /\ s = "Weak positive correlation"
                <=> (Tenths(1) <= c /\ c < Tenths(5))
           /\ s = "Weak negative correlation"
                <=> (-Tenths(5) < c /\ c <= -Tenths(1))
           /\ s = "No correlation" <=> (-Tenths(1) < c /\ c < Tenths(1))
           /\ s = "Perfect negative correlation" <=> c = -One

\* C5's case: _interpret_kendall reached its final else, on -1.
C5_Witness ==
    /\ PureReturned("_interpret_kendall")
    /\ pure.arg = -One
    /\ pure.ret[1] = "Perfect disagreement"

----------------------------------------------------------------------------
\* Properties of analyze and create_visualizations

ReturnedBy(op) == outcome.op = op /\ outcome.error = NoError
Loaded == ~IsNone(data)

\* The rows of the loaded table in which neither column has a missing cell.
ValidPairedRows(col1, col2) ==
    {i \in DOMAIN data[col1] : data[col1][i] # NaN /\ data[col2][i] # NaN}

\* The distinct non-missing values of a column of the loaded table.
DistinctValues(col) == Range(data[col]) \ {NaN}

\* C2: the sample_size analyze returns is the number of rows in which
\* neither column's cell is missing.
C2_SampleSizeIsValidPairedRows ==
    ReturnedBy("analyze") =>
        outcome.result[1].sample_size =
            Cardinality(ValidPairedRows(outcome.col1, outcome.col2))

\* C3: the total_ties analyze returns is (sample_size - distinct values of
\* A) + (sample_size - distinct values of B), with the returned sample_size
\* in both terms.
C3_TotalTies ==
    ReturnedBy("analyze") =>
        LET r == outcome.result[1]
        IN r.total_ties =
             (r.sample_size - Cardinality(DistinctValues(outcome.col1)))
           + (r.sample_size - Cardinality(DistinctValues(outcome.col2)))

\* C3's case: analyze returned for two different columns, one of them with
\* a missing cell, and counted ties.
C3_Witness ==
    /\ ReturnedBy("analyze")
    /\ outcome.col1 # outcome.col2
    /\ NaN \in Range(data[outcome.col1])
    /\ outcome.result[1].total_ties > 0
    /\ Cardinality(DistinctValues(outcome.col1)) > 1

\* C9: every pair of values analyze hands to kendalltau and spearmanr holds
\* the values of the two columns in one and the same row.
C9_PairsFromOneRow ==
    ReturnedBy("analyze") =>
        \A i \in DOMAIN outcome.result[1].paired :
            outcome.result[1].paired[i].a.idx = outcome.result[1].paired[i].b.idx

\* C4: called with no table loaded, analyze and create_visualizations end
\* in the no-data-loaded error; called with a name that is no loaded
\* column, in the unknown-column error; either way nothing is returned.
C4_ErrorAndNothingReturned ==
    outcome.op \in {"analyze", "create_visualizations"} =>
        /\ ~Loaded => outcome.error = NoDataLoadedError
        /\ (Loaded /\ ~({outcome.col1, outcome.col2} \subseteq Range(columns)))
              => outcome.error = UnknownColumnError
        /\ outcome.error \in {NoDataLoadedError, UnknownColumnError}
              => outcome.result = <<>> /\ outcome.chart = <<>>

\* C4: a call that ends in one of the two errors leaves the loaded table
\* and the column list as they were.
C4_ErrorLeavesTable ==
    (/\ outcome'.op \in {"analyze", "create_visualizations"}
     /\ outcome'.error \in {NoDataLoadedError, UnknownColumnError})
        => data' = data /\ columns' = columns

\* C4: both parts.
C4_PreconditionErrors ==
    []C4_ErrorAndNothingReturned /\ [][C4_ErrorLeavesTable]_vars

\* C4's case: analyze was called on a loaded table with a first name that
\* is a column and a second that is none.
C4_Witness ==
    /\ outcome.op = "analyze"
    /\ Loaded
    /\ outcome.col1 \in Range(columns)
    /\ outcome.col2 \notin Range(columns)
    /\ outcome.error = UnknownColumnError

\* C6: in the figure create_visualizations returns, the counts of either
\* histogram and the cells of the joint frequency matrix each sum to the
\* sample_size analyze returns for the same columns.
C6_PanelCountsSumToSampleSize ==
    (/\ ReturnedBy("create_visualizations")
     /\ analyze_raises(data, outcome.col1, outcome.col2) = NoError)
        => LET fig == outcome.chart[1]
               n == AnalysisResults(data, outcome.col1, outcome.col2).sample_size
           IN /\ SumFn(fig.counts1) = n
              /\ SumFn(fig.counts2) = n
              /\ SumFn(fig.heatmap_data) = n

\* A call of create_visualizations that would return a figure with points.
CanPlot(col1, col2) ==
    /\ create_visualizations_raises(data, col1, col2) = NoError
    /\ Len(dropna(Column(data, col1))) > 0

\* C10: whenever create_visualizations can plot a point, it can return a
\* point cloud in which some point's x offset differs from its y offset.
C10_IndependentNoisePossible ==
    (outcome = Idle /\ \E col1, col2 \in RequestNames : CanPlot(col1, col2))
        => ENABLED (/\ Describe
                    /\ outcome'.error = NoError
                    /\ \E i \in DOMAIN outcome'.chart[1].scatter :
                          outcome'.chart[1].scatter[i].dx
                            # outcome'.chart[1].scatter[i].dy)

\* C7: analyze and create_visualizations leave the loaded table and the
\* column list as they were.
C7_CallsLeaveTable ==
    outcome'.op \in {"analyze", "create_visualizations"}
        => data' = data /\ columns' = columns

\* C7: whatever was called since the load, analyze returns the
\* AnalysisResults of the table that was loaded, so two calls on the same
\* columns return the same.
C7_ResultOfLoadedTable ==
    ReturnedBy("analyze") =>
        outcome.result[1] = AnalysisResults(upload, outcome.col1, outcome.col2)

\* C7: both parts.
C7_AnalyzeIdempotent ==
    [][C7_CallsLeaveTable]_vars /\ []C7_ResultOfLoadedTable

\* C7's case: analyze returned, on a table with a missing cell, after
\* create_visualizations had returned a figure for that table.
C7_Witness ==
    /\ ReturnedBy("analyze")
    /\ described
    /\ NaN \in Range(data[outcome.col1])
    /\ outcome.result[1].sample_size > 0

====
